---- MODULE Spec2Model ----
(***************************************************************************)
(* Rolling-update orchestration: UpdateSupervisor, Updater and the         *)
(* per-task replacement (manager/orchestrator/updater.go).                 *)
(*                                                                         *)
(* Goroutines are modelled as processes with a program position each:      *)
(* the caller that holds the supervisor lock, one Run goroutine per        *)
(* Updater, and the workers of each Updater.  A caller blocked in Lock()   *)
(* has no state of its own, so the callers are represented by the one      *)
(* that currently holds the lock.  A panic (close of a closed channel)     *)
(* ends the process: no action is enabled once panicked holds.             *)
(***************************************************************************)
EXTENDS Integers, Sequences, FiniteSets, TLC

\* ------------------------------------------------------------------ bounds
MaxRuns == 3
MaxSupervised == 2
MaxTasks == 2
MaxParallelism == 2
MaxPending == 1

Runs == 1 .. MaxRuns
TaskNums == 1 .. MaxTasks
Max(a, b) == IF a >= b THEN a ELSE b
Slots == 1 .. Max(MaxParallelism, MaxTasks)

\* ------------------------------------------------------------------ data
ServiceIDs == {"A", "B"}

\* api.ContainerSpec values; the zero value is api.ContainerSpec{}.
EmptyContainerSpec == [Image |-> ""]
ContainerSpecs == {EmptyContainerSpec, [Image |-> "v1"], [Image |-> "v2"]}

\* A pointer is <<>> (nil) or <<v>> (the address of a value v).
Nil == <<>>
Ptr(v) == <<v>>

\* api.TaskState is ordered; only the order relative to RUNNING is used.
TaskStateRank == [NEW |-> 0, STARTING |-> 1, RUNNING |-> 2, COMPLETE |-> 3]
EventStates == {"STARTING", "RUNNING", "COMPLETE"}

ServiceModes == {"FILL", "REPLICATED"}

\* Identifiers: <<0, i>> is the i-th task of the caller's snapshot, <<r, i>> the
\* identifier generated for the task that run r builds to replace it.
OriginalID(i) == <<0, i>>
NoTask == [ID |-> <<0, 0>>]

\* The tasks in the store when the updates begin.
OriginalSpec(i) == IF i = 1 THEN EmptyContainerSpec ELSE [Image |-> "v1"]
OriginalTask(i) ==
    [ID |-> OriginalID(i), Instance |-> 100 + i, NodeID |-> <<"node", i>>,
     DesiredState |-> "RUNNING", Spec |-> OriginalSpec(i)]

\* The snapshots a caller passes to Update: the first k tasks of the store.
TaskLists == {[i \in 1 .. k |-> OriginalTask(i)] : k \in 0 .. MaxTasks}

\* service.Spec.Update is nil or a policy {Parallelism, Delay}.
UpdateConfigs ==
    {Nil} \cup {Ptr([Parallelism |-> p, Delay |-> d]) : p \in 0 .. MaxParallelism, d \in {0, 1}}

\* service.Spec.GetContainer(): nil or a pointer to the container spec.
ServiceContainers == {Nil} \cup {Ptr(c) : c \in ContainerSpecs}

\* The services a caller of one update passes.
Services ==
    [ID : ServiceIDs, Container : ServiceContainers, Update : UpdateConfigs,
     Mode : ServiceModes]

\* The calls of the supervisor's callers when several updates are followed
\* together: a new container spec for every task, one worker and a delay,
\* for a snapshot of at most one task.
SupervisedServices ==
    [ID : ServiceIDs, Container : {Ptr([Image |-> "v2"])},
     Update : {Ptr([Parallelism |-> 1, Delay |-> 1])}, Mode : {"REPLICATED"}]
SupervisedTaskLists == {ts \in TaskLists : Len(ts) <= 1}

NoService == [ID |-> "none", Container |-> Nil, Update |-> Nil, Mode |-> "REPLICATED"]

\* ------------------------------------------------------------------ state
VARIABLES
    l,          \* UpdateSupervisor.l: "free" or "held" (by the caller in cpc)
    updates,    \* UpdateSupervisor.updates: service ID -> run (0: no entry)
    cpc,        \* position of the caller holding the lock
    cid,        \* service.ID of the Update call in progress
    ctarget,    \* the Updater whose Cancel() the caller is executing
    cpending,   \* CancelAll: entries the range loop has not visited yet
    created,    \* number of Updaters built by NewUpdater
    panicked,   \* the process died in a runtime panic
    stopChan,   \* Updater.stopChan closed?
    doneChan,   \* Updater.doneChan closed?
    service,    \* argument of Run
    tasks,      \* argument of Run
    dirtyTasks, \* Run's local
    upc,        \* position of the goroutine that executes Run
    idx,        \* index of the dispatch loop over dirtyTasks
    taskQueue,  \* "none", "open" or "closed"
    w,          \* the workers of each run
    store,      \* the MemoryStore: task ID -> task
    dispatched, \* history: tasks handed to workers, in order
    sawStop,    \* history: the dispatch loop took the stopChan case
    cancelCalls,\* history: number of Cancel() invocations per Updater
    txIssued,   \* history: store.Update calls per run
    quietAtStop \* history: Quiet held when stopChan was closed

supervisorVars == <<l, updates, cpc, cid, ctarget, cpending, created>>
runVars == <<service, tasks, dirtyTasks, upc, idx, taskQueue>>
histVars == <<dispatched, sawStop, cancelCalls, txIssued, quietAtStop>>
vars == <<supervisorVars, panicked, stopChan, doneChan, runVars, w, store, histVars>>

IdleWorker == [pc |-> "none", original |-> NoTask, updated |-> NoTask,
               watching |-> FALSE, events |-> <<>>]

Init ==
    /\ l = "free"
    /\ updates = [id \in ServiceIDs |-> 0]
    /\ cpc = "idle"
    /\ cid = "none"
    /\ ctarget = 0
    /\ cpending = {}
    /\ created = 0
    /\ panicked = FALSE
    /\ stopChan = [r \in Runs |-> FALSE]
    /\ doneChan = [r \in Runs |-> FALSE]
    /\ service = [r \in Runs |-> NoService]
    /\ tasks = [r \in Runs |-> <<>>]
    /\ dirtyTasks = [r \in Runs |-> <<>>]
    /\ upc = [r \in Runs |-> "none"]
    /\ idx = [r \in Runs |-> 0]
    /\ taskQueue = [r \in Runs |-> "none"]
    /\ w = [r \in Runs |-> [s \in Slots |-> IdleWorker]]
    /\ store = [id \in {OriginalID(i) : i \in TaskNums} |-> OriginalTask(id[2])]
    /\ dispatched = [r \in Runs |-> <<>>]
    /\ sawStop = [r \in Runs |-> FALSE]
    /\ cancelCalls = [r \in Runs |-> 0]
    /\ txIssued = [r \in Runs |-> 0]
    /\ quietAtStop = [r \in Runs |-> FALSE]


\* ------------------------------------------------------------------ pure steps
\* reflect.DeepEqual on two api.ContainerSpec values: field by field.
DeepEqualSpec(a, b) == a.Image = b.Image

\* reflect.DeepEqual on two *api.ContainerSpec: nil equals only nil, and two
\* non-nil pointers are equal when what they point at is.
DeepEqualPtr(p, q) ==
    IF p = Nil \/ q = Nil THEN p = Nil /\ q = Nil ELSE DeepEqualSpec(p[1], q[1])

\* Mutant: the diff without its first test (an empty task under a service
\* without container spec is compared like any other).
IsDirtySymmetric(svc, t) == ~DeepEqualPtr(svc.Container, Ptr(t.Spec))

\* The body of the diff loop of Run: is task t of the snapshot dirty?
IsDirty(svc, t) ==
    IF svc.Container = Nil /\ DeepEqualSpec(t.Spec, EmptyContainerSpec)
    THEN FALSE
    ELSE ~DeepEqualPtr(svc.Container, Ptr(t.Spec))

\* dirtyTasks as the loop appends them: the dirty tasks in snapshot order.
DirtyTasks(svc, ts) == SelectSeq(ts, LAMBDA t : IsDirty(svc, t))

\* Mutant: the configured parallelism is ignored.
ParallelismUnlimited(svc, dirty) == Len(dirty)

\* The number of workers Run starts.
Parallelism(svc, dirty) ==
    LET parallelism == IF svc.Update # Nil THEN svc.Update[1].Parallelism ELSE 0
    IN  IF parallelism = 0 THEN Len(dirty) ELSE parallelism

\* service.Spec.Update != nil && service.Spec.Update.Delay != 0
HasDelay(svc) == svc.Update # Nil /\ svc.Update[1].Delay # 0

\* newTask(service, instance): a task of the service for the given instance,
\* with an identifier of its own and no node assigned.
NewTask(svc, instance, id) ==
    [ID |-> id, Instance |-> instance, NodeID |-> <<>>, DesiredState |-> "RUNNING",
     Spec |-> IF svc.Container = Nil THEN EmptyContainerSpec ELSE svc.Container[1]]

\* Mutant: the node of the original is copied whatever the mode.
UpdatedPinned(r, svc, t) ==
    [NewTask(svc, t.Instance, <<r, t.ID[2]>>) EXCEPT !.NodeID = t.NodeID]

\* The task a worker of run r builds to replace t.
Updated(r, svc, t) ==
    LET updated == NewTask(svc, t.Instance, <<r, t.ID[2]>>)
    IN  IF svc.Mode = "FILL" THEN [updated EXCEPT !.NodeID = t.NodeID] ELSE updated

\* ------------------------------------------------------------------ UpdateSupervisor
\* Mutant: Update cancels some registered run, of whatever service.
UpdateLockAny(id) ==
    /\ ~panicked /\ l = "free" /\ cpc = "idle"
    /\ created < MaxRuns
    /\ l' = "held"
    /\ cid' = id
    /\ \/ /\ updates[id] = 0 /\ cpc' = "Update_New" /\ ctarget' = 0
       \/ /\ updates[id] # 0 /\ cpc' = "Update_Cancel"
          /\ \E id2 \in ServiceIDs : updates[id2] # 0 /\ ctarget' = updates[id2]
    /\ UNCHANGED <<updates, cpending, created, panicked, stopChan, doneChan, runVars, w,
                   store, histVars>>

\* Update: take the lock and look the service up in the registry.
UpdateLock(id) ==
    /\ ~panicked /\ l = "free" /\ cpc = "idle"
    /\ created < MaxRuns
    /\ l' = "held"
    /\ cid' = id
    /\ IF updates[id] # 0
       THEN cpc' = "Update_Cancel" /\ ctarget' = updates[id]
       ELSE cpc' = "Update_New" /\ ctarget' = 0
    /\ UNCHANGED <<updates, cpending, created, panicked, stopChan, doneChan, runVars, w,
                   store, histVars>>

\* Update: build the Updater, register it, start its goroutine, unlock.
UpdateNew(svc, ts) ==
    /\ ~panicked /\ cpc = "Update_New"
    /\ svc.ID = cid
    /\ LET r == created + 1 IN
        /\ created' = r
        /\ updates' = [updates EXCEPT ![cid] = r]
        /\ service' = [service EXCEPT ![r] = svc]
        /\ tasks' = [tasks EXCEPT ![r] = ts]
        /\ upc' = [upc EXCEPT ![r] = "go"]
    /\ l' = "free" /\ cpc' = "idle" /\ cid' = "none"
    /\ UNCHANGED <<ctarget, cpending, panicked, stopChan, doneChan, dirtyTasks, idx,
                   taskQueue, w, store, histVars>>

\* Mutant: the goroutine deletes the entry of its service without comparing
\* it with its own Updater.
DeregisterUnguarded(r) ==
    /\ ~panicked /\ upc[r] = "ran" /\ l = "free"
    /\ updates' = [updates EXCEPT ![service[r].ID] = 0]
    /\ upc' = [upc EXCEPT ![r] = "exit"]
    /\ UNCHANGED <<l, cpc, cid, ctarget, cpending, created, panicked, stopChan, doneChan,
                   service, tasks, dirtyTasks, idx, taskQueue, w, store, histVars>>

\* The tail of the goroutine Update starts: deregister the run if the entry is
\* still its own.  The critical section has no blocking step.
Deregister(r) ==
    /\ ~panicked /\ upc[r] = "ran" /\ l = "free"
    /\ updates' = IF updates[service[r].ID] = r
                  THEN [updates EXCEPT ![service[r].ID] = 0]
                  ELSE updates
    /\ upc' = [upc EXCEPT ![r] = "exit"]
    /\ UNCHANGED <<l, cpc, cid, ctarget, cpending, created, panicked, stopChan, doneChan,
                   service, tasks, dirtyTasks, idx, taskQueue, w, store, histVars>>

\* CancelAll: take the lock and start ranging over the registry.
CancelAllLock ==
    /\ ~panicked /\ l = "free" /\ cpc = "idle"
    /\ l' = "held"
    /\ cpc' = "CancelAll_Range"
    /\ cpending' = {updates[id] : id \in ServiceIDs} \ {0}
    /\ UNCHANGED <<updates, cid, ctarget, created, panicked, stopChan, doneChan, runVars,
                   w, store, histVars>>

\* CancelAll: the next entry of the range loop, in the map's arbitrary order.
CancelAllNext(r) ==
    /\ ~panicked /\ cpc = "CancelAll_Range"
    /\ r \in cpending
    /\ cpending' = cpending \ {r}
    /\ ctarget' = r
    /\ cpc' = "CancelAll_Cancel"
    /\ UNCHANGED <<l, updates, cid, created, panicked, stopChan, doneChan, runVars, w,
                   store, histVars>>

\* CancelAll: the range loop is over; unlock and return.
CancelAllReturn ==
    /\ ~panicked /\ cpc = "CancelAll_Range"
    /\ cpending = {}
    /\ l' = "free" /\ cpc' = "idle"
    /\ UNCHANGED <<updates, cid, ctarget, cpending, created, panicked, stopChan, doneChan,
                   runVars, w, store, histVars>>

\* ------------------------------------------------------------------ Updater.Cancel
\* Run r is blocked mid-wait or mid-delay: some worker is blocked in the
\* wait for an event or in the delay, and none is between receiving its task
\* and the end of its transaction.
Quiet(r) ==
    /\ \E s \in Slots : w[r][s].pc \in {"wait", "delay"}
    /\ \A s \in Slots : w[r][s].pc \notin {"watch", "tx"}

\* close(u.stopChan); closing a closed channel panics.
CancelClose ==
    /\ ~panicked /\ cpc \in {"Update_Cancel", "CancelAll_Cancel"}
    /\ cancelCalls' = [cancelCalls EXCEPT ![ctarget] = @ + 1]
    /\ IF stopChan[ctarget]
       THEN /\ panicked' = TRUE
            /\ UNCHANGED <<stopChan, cpc, quietAtStop>>
       ELSE /\ stopChan' = [stopChan EXCEPT ![ctarget] = TRUE]
            /\ quietAtStop' = [quietAtStop EXCEPT ![ctarget] = Quiet(ctarget)]
            /\ cpc' = IF cpc = "Update_Cancel" THEN "Update_Wait" ELSE "CancelAll_Wait"
            /\ UNCHANGED panicked
    /\ UNCHANGED <<l, updates, cid, ctarget, cpending, created, doneChan, runVars, w,
                   store, dispatched, sawStop, txIssued>>

\* Mutant: Cancel returns without receiving from doneChan.
CancelNoWait ==
    /\ ~panicked /\ cpc \in {"Update_Wait", "CancelAll_Wait"}
    /\ cpc' = IF cpc = "Update_Wait" THEN "Update_New" ELSE "CancelAll_Range"
    /\ ctarget' = 0
    /\ UNCHANGED <<l, updates, cid, cpending, created, panicked, stopChan, doneChan,
                   runVars, w, store, histVars>>

\* <-u.doneChan, and the return to the caller.
CancelWait ==
    /\ ~panicked /\ cpc \in {"Update_Wait", "CancelAll_Wait"}
    /\ doneChan[ctarget]
    /\ cpc' = IF cpc = "Update_Wait" THEN "Update_New" ELSE "CancelAll_Range"
    /\ ctarget' = 0
    /\ UNCHANGED <<l, updates, cid, cpending, created, panicked, stopChan, doneChan,
                   runVars, w, store, histVars>>


\* ------------------------------------------------------------------ Updater.Run
\* Run returns at once when no task is dirty; the deferred close(doneChan) runs.
RunAbort(r, dirty) ==
    /\ dirtyTasks' = [dirtyTasks EXCEPT ![r] = dirty]
    /\ doneChan' = [doneChan EXCEPT ![r] = TRUE]
    /\ upc' = [upc EXCEPT ![r] = "ran"]
    /\ UNCHANGED <<idx, taskQueue, w>>

\* Run makes the queue and starts the workers, then enters the dispatch loop.
RunWorkers(r, dirty) ==
    /\ dirtyTasks' = [dirtyTasks EXCEPT ![r] = dirty]
    /\ taskQueue' = [taskQueue EXCEPT ![r] = "open"]
    /\ w' = [w EXCEPT ![r] = [s \in Slots |->
                IF s <= Parallelism(service[r], dirty)
                THEN [IdleWorker EXCEPT !.pc = "recv"]
                ELSE IdleWorker]]
    /\ idx' = [idx EXCEPT ![r] = 1]
    /\ upc' = [upc EXCEPT ![r] = "dispatch"]
    /\ UNCHANGED doneChan

\* Mutant: no early return when no task is dirty.
RunStartNoAbort(r) ==
    /\ ~panicked /\ upc[r] = "go"
    /\ RunWorkers(r, DirtyTasks(service[r], tasks[r]))
    /\ UNCHANGED <<supervisorVars, panicked, stopChan, service, tasks, store, histVars>>

\* Run up to the dispatch loop: the diff, the early return, the workers.
RunStart(r) ==
    /\ ~panicked /\ upc[r] = "go"
    /\ LET dirty == DirtyTasks(service[r], tasks[r])
       IN  IF Len(dirty) = 0 THEN RunAbort(r, dirty) ELSE RunWorkers(r, dirty)
    /\ UNCHANGED <<supervisorVars, panicked, stopChan, service, tasks, store, histVars>>

\* The select of the dispatch loop, case <-u.stopChan: the break leaves the
\* select, and the loop goes on to the next dirty task.
DispatchStop(r) ==
    /\ ~panicked /\ upc[r] = "dispatch" /\ idx[r] <= Len(dirtyTasks[r])
    /\ stopChan[r]
    /\ idx' = [idx EXCEPT ![r] = @ + 1]
    /\ sawStop' = [sawStop EXCEPT ![r] = TRUE]
    /\ UNCHANGED <<supervisorVars, panicked, stopChan, doneChan, service, tasks,
                   dirtyTasks, upc, taskQueue, w, store, dispatched, cancelCalls,
                   txIssued, quietAtStop>>

\* The select of the dispatch loop, case taskQueue <- t: the queue is
\* unbuffered, so the send happens together with the receive of a worker s
\* that is at the head of its range loop.  The worker builds the replacement.
\* The workers blocked in the receive are in the same state, so the one the
\* runtime wakes is taken to be the first of them.
DispatchSend(r, s) ==
    /\ ~panicked /\ upc[r] = "dispatch" /\ idx[r] <= Len(dirtyTasks[r])
    /\ w[r][s].pc = "recv"
    /\ \A s2 \in Slots : w[r][s2].pc = "recv" => s <= s2
    /\ LET t == dirtyTasks[r][idx[r]] IN
        /\ w' = [w EXCEPT ![r][s] = [@ EXCEPT !.pc = "watch", !.original = t,
                                         !.updated = Updated(r, service[r], t)]]
        /\ dispatched' = [dispatched EXCEPT ![r] = Append(@, t.ID)]
    /\ idx' = [idx EXCEPT ![r] = @ + 1]
    /\ UNCHANGED <<supervisorVars, panicked, stopChan, doneChan, service, tasks,
                   dirtyTasks, upc, taskQueue, store, sawStop, cancelCalls, txIssued,
                   quietAtStop>>

\* close(taskQueue) after the loop; Run then blocks in wg.Wait().
CloseQueue(r) ==
    /\ ~panicked /\ upc[r] = "dispatch" /\ idx[r] > Len(dirtyTasks[r])
    /\ taskQueue' = [taskQueue EXCEPT ![r] = "closed"]
    /\ upc' = [upc EXCEPT ![r] = "wait"]
    /\ UNCHANGED <<supervisorVars, panicked, stopChan, doneChan, service, tasks,
                   dirtyTasks, idx, w, store, histVars>>

\* Mutant: Run returns after closing the queue, without wg.Wait().
RunReturnNoWait(r) ==
    /\ ~panicked /\ upc[r] = "wait"
    /\ doneChan' = [doneChan EXCEPT ![r] = TRUE]
    /\ upc' = [upc EXCEPT ![r] = "ran"]
    /\ UNCHANGED <<supervisorVars, panicked, stopChan, service, tasks, dirtyTasks, idx,
                   taskQueue, w, store, histVars>>

\* wg.Wait() returns when every worker has returned; Run returns and the
\* deferred close(doneChan) runs.
RunReturn(r) ==
    /\ ~panicked /\ upc[r] = "wait"
    /\ \A s \in Slots : w[r][s].pc \in {"none", "exit"}
    /\ doneChan' = [doneChan EXCEPT ![r] = TRUE]
    /\ upc' = [upc EXCEPT ![r] = "ran"]
    /\ UNCHANGED <<supervisorVars, panicked, stopChan, service, tasks, dirtyTasks, idx,
                   taskQueue, w, store, histVars>>

\* ------------------------------------------------------------------ Updater.worker
\* The range loop ends when the queue is closed; the worker returns.
WorkerExit(r, s) ==
    /\ ~panicked /\ w[r][s].pc = "recv" /\ taskQueue[r] = "closed"
    /\ w' = [w EXCEPT ![r][s].pc = "exit"]
    /\ UNCHANGED <<supervisorVars, panicked, stopChan, doneChan, runVars, store, histVars>>

\* What the worker does once updateTask has returned: the deferred cancel()
\* has released the watch; with a delay configured the worker enters the
\* select on the timer and stopChan, otherwise it is back at the range loop.
AfterUpdateTask(r, s) ==
    [IdleWorker EXCEPT !.pc = IF HasDelay(service[r]) THEN "delay" ELSE "recv"]

\* Mutant: the worker returns when the delay is over.
DelayTimerExit(r, s) ==
    /\ ~panicked /\ w[r][s].pc = "delay"
    /\ w' = [w EXCEPT ![r][s].pc = "exit"]
    /\ UNCHANGED <<supervisorVars, panicked, stopChan, doneChan, runVars, store, histVars>>

\* case <-time.After(delay)
DelayTimer(r, s) ==
    /\ ~panicked /\ w[r][s].pc = "delay"
    /\ w' = [w EXCEPT ![r][s].pc = "recv"]
    /\ UNCHANGED <<supervisorVars, panicked, stopChan, doneChan, runVars, store, histVars>>

\* case <-u.stopChan: return
DelayStop(r, s) ==
    /\ ~panicked /\ w[r][s].pc = "delay" /\ stopChan[r]
    /\ w' = [w EXCEPT ![r][s].pc = "exit"]
    /\ UNCHANGED <<supervisorVars, panicked, stopChan, doneChan, runVars, store, histVars>>

\* ------------------------------------------------------------------ Updater.updateTask
\* Mutant: the transaction is issued first and the watch is established
\* after it, at the head of the wait.
WatchAfterTx(r, s) ==
    /\ ~panicked
    /\ \/ w[r][s].pc = "watch" /\ w' = [w EXCEPT ![r][s].pc = "tx"]
       \/ /\ w[r][s].pc = "wait" /\ ~w[r][s].watching
          /\ w' = [w EXCEPT ![r][s].watching = TRUE]
    /\ UNCHANGED <<supervisorVars, panicked, stopChan, doneChan, runVars, store, histVars>>

\* Mutant: a worker whose transaction is rejected returns.
TxRejectAbort(r, s) ==
    /\ ~panicked /\ w[r][s].pc = "tx"
    /\ w' = [w EXCEPT ![r][s] = [IdleWorker EXCEPT !.pc = "exit"]]
    /\ txIssued' = [txIssued EXCEPT ![r] = @ + 1]
    /\ UNCHANGED <<supervisorVars, panicked, stopChan, doneChan, runVars, store,
                   dispatched, sawStop, cancelCalls, quietAtStop>>

\* state.Watch on the identifier of the replacement.
Watch(r, s) ==
    /\ ~panicked /\ w[r][s].pc = "watch"
    /\ w' = [w EXCEPT ![r][s] = [@ EXCEPT !.pc = "tx", !.watching = TRUE]]
    /\ UNCHANGED <<supervisorVars, panicked, stopChan, doneChan, runVars, store, histVars>>

\* The store after a transaction that commits: the writes of the callback
\* (UpdateTask of t, CreateTask of updated) appear together.
StoreUpdate(st, t, updated) ==
    [id \in DOMAIN st \cup {updated.ID} |->
        IF id = t.ID THEN t
        ELSE IF id = updated.ID THEN updated
        ELSE st[id]]

\* Mutant: the write of the original is visible although CreateTask failed
\* and the transaction returned the error.
TxPartial(r, s) ==
    /\ ~panicked /\ w[r][s].pc = "tx"
    /\ store' = [store EXCEPT ![w[r][s].original.ID].DesiredState = "DEAD"]
    /\ w' = [w EXCEPT ![r][s] = AfterUpdateTask(r, s)]
    /\ txIssued' = [txIssued EXCEPT ![r] = @ + 1]
    /\ UNCHANGED <<supervisorVars, panicked, stopChan, doneChan, runVars, dispatched,
                   sawStop, cancelCalls, quietAtStop>>

\* store.Update commits: the task read by GetTask is written back with
\* DesiredState dead and the replacement is created, in one transaction.
TxCommit(r, s) ==
    /\ ~panicked /\ w[r][s].pc = "tx"
    /\ LET original == w[r][s].original
           updated == w[r][s].updated
           t == [store[original.ID] EXCEPT !.DesiredState = "DEAD"]
       IN  store' = StoreUpdate(store, t, updated)
    /\ w' = [w EXCEPT ![r][s].pc = "wait"]
    /\ txIssued' = [txIssued EXCEPT ![r] = @ + 1]
    /\ UNCHANGED <<supervisorVars, panicked, stopChan, doneChan, runVars, dispatched,
                   sawStop, cancelCalls, quietAtStop>>

\* store.Update rejects the transaction: nothing is written, updateTask
\* returns the error, the worker logs it and goes on.
TxReject(r, s) ==
    /\ ~panicked /\ w[r][s].pc = "tx"
    /\ w' = [w EXCEPT ![r][s] = AfterUpdateTask(r, s)]
    /\ txIssued' = [txIssued EXCEPT ![r] = @ + 1]
    /\ UNCHANGED <<supervisorVars, panicked, stopChan, doneChan, runVars, store,
                   dispatched, sawStop, cancelCalls, quietAtStop>>

\* Mutant: the wait loop returns at the first event, whatever its state.
WaitEventAnyState(r, s) ==
    /\ ~panicked /\ w[r][s].pc = "wait"
    /\ w[r][s].events # <<>>
    /\ w' = [w EXCEPT ![r][s] = AfterUpdateTask(r, s)]
    /\ UNCHANGED <<supervisorVars, panicked, stopChan, doneChan, runVars, store, histVars>>

\* The wait loop, case e := <-taskUpdates: return when the state carried by
\* the event is at least running, else wait on.
WaitEvent(r, s) ==
    /\ ~panicked /\ w[r][s].pc = "wait"
    /\ w[r][s].events # <<>>
    /\ w' = [w EXCEPT ![r][s] =
                IF TaskStateRank[Head(@.events)] >= TaskStateRank.RUNNING
                THEN AfterUpdateTask(r, s)
                ELSE [@ EXCEPT !.events = Tail(@)]]
    /\ UNCHANGED <<supervisorVars, panicked, stopChan, doneChan, runVars, store, histVars>>

\* Mutant: the wait loop has no stopChan case.
WaitNoStop(r, s) == FALSE /\ UNCHANGED vars

\* Mutant: the return on stopChan does not release the watch.
WaitStopLeak(r, s) ==
    /\ ~panicked /\ w[r][s].pc = "wait"
    /\ stopChan[r]
    /\ w' = [w EXCEPT ![r][s] = [AfterUpdateTask(r, s) EXCEPT !.watching = TRUE]]
    /\ UNCHANGED <<supervisorVars, panicked, stopChan, doneChan, runVars, store, histVars>>

\* The wait loop, case <-u.stopChan: return nil.
WaitStop(r, s) ==
    /\ ~panicked /\ w[r][s].pc = "wait"
    /\ stopChan[r]
    /\ w' = [w EXCEPT ![r][s] = AfterUpdateTask(r, s)]
    /\ UNCHANGED <<supervisorVars, panicked, stopChan, doneChan, runVars, store, histVars>>

\* ------------------------------------------------------------------ environment
\* Another component updates the replacement in the store (its status moves);
\* the store publishes an EventUpdateTask, which the watch of worker s
\* matches by identifier; an event published while no watch matches it is
\* dropped.  The code reads the status from the event only.
Publish(r, s, e) ==
    /\ ~panicked /\ w[r][s].watching
    /\ w[r][s].updated.ID \in DOMAIN store
    /\ Len(w[r][s].events) < MaxPending
    /\ w' = [w EXCEPT ![r][s].events = Append(@, e)]
    /\ UNCHANGED <<supervisorVars, panicked, stopChan, doneChan, runVars, store, histVars>>

\* ------------------------------------------------------------------ specification
\* The steps of the Cancel calls, the runs, their workers and the environment.
Steps ==
    \/ CancelAllLock
    \/ \E r \in Runs : CancelAllNext(r)
    \/ CancelAllReturn
    \/ CancelClose
    \/ CancelWait
    \/ \E r \in Runs : RunStart(r)
    \/ \E r \in Runs : DispatchStop(r)
    \/ \E r \in Runs, s \in Slots : DispatchSend(r, s)
    \/ \E r \in Runs : CloseQueue(r)
    \/ \E r \in Runs : RunReturn(r)
    \/ \E r \in Runs : Deregister(r)
    \/ \E r \in Runs, s \in Slots : WorkerExit(r, s)
    \/ \E r \in Runs, s \in Slots : DelayTimer(r, s)
    \/ \E r \in Runs, s \in Slots : DelayStop(r, s)
    \/ \E r \in Runs, s \in Slots : Watch(r, s)
    \/ \E r \in Runs, s \in Slots : TxCommit(r, s)
    \/ \E r \in Runs, s \in Slots : TxReject(r, s)
    \/ \E r \in Runs, s \in Slots : WaitEvent(r, s)
    \/ \E r \in Runs, s \in Slots : WaitStop(r, s)
    \/ \E r \in Runs, s \in Slots, e \in EventStates : Publish(r, s, e)

\* The supervisor with up to MaxSupervised updates.
Next ==
    \/ \E id \in ServiceIDs : created < MaxSupervised /\ UpdateLock(id)
    \/ \E svc \in SupervisedServices, ts \in SupervisedTaskLists : UpdateNew(svc, ts)
    \/ Steps

Spec == Init /\ [][Next]_vars

\* The supervisor with up to MaxRuns updates: enough for an update of one
\* service to replace a run while a run of the other service is registered.
NextScoped ==
    \/ \E id \in ServiceIDs : UpdateLock(id)
    \/ \E svc \in SupervisedServices, ts \in SupervisedTaskLists : UpdateNew(svc, ts)
    \/ Steps

SpecScoped == Init /\ [][NextScoped]_vars

\* One update of service "A", with any container spec and update policy, of
\* any snapshot, and any number of CancelAll.
RunServices == {svc \in Services : svc.ID = "A" /\ svc.Mode = "REPLICATED"}

NextRun ==
    \/ created = 0 /\ UpdateLock("A")
    \/ \E svc \in RunServices, ts \in TaskLists : UpdateNew(svc, ts)
    \/ Steps

SpecRun == Init /\ [][NextRun]_vars

\* One update of service "A" in either mode, to a new container spec, with
\* unlimited workers or with one worker and a delay.
ModeServices ==
    [ID : {"A"}, Container : {Ptr([Image |-> "v2"])},
     Update : {Nil, Ptr([Parallelism |-> 1, Delay |-> 1])}, Mode : ServiceModes]

NextMode ==
    \/ created = 0 /\ UpdateLock("A")
    \/ \E svc \in ModeServices, ts \in TaskLists : UpdateNew(svc, ts)
    \/ Steps

SpecMode == Init /\ [][NextMode]_vars

\* The steps of the goroutine that executes Run, and the steps a worker takes
\* whatever the environment does (every step but the receipt of an event).
RunStep(r) ==
    \/ RunStart(r)
    \/ DispatchStop(r)
    \/ \E s \in Slots : DispatchSend(r, s)
    \/ CloseQueue(r)
    \/ RunReturn(r)

WorkerStep(r, s) ==
    \/ WorkerExit(r, s)
    \/ DelayTimer(r, s)
    \/ DelayStop(r, s)
    \/ Watch(r, s)
    \/ TxCommit(r, s)
    \/ TxReject(r, s)
    \/ WaitStop(r, s)

\* The scheduler runs every goroutine that can take a step: a select with a
\* case that stays ready is left, a wait whose stopChan case stays ready
\* takes it, timers fire and store transactions end.  Nothing is assumed of
\* the callers, nor of the component that moves the status of the
\* replacements.
Fairness ==
    /\ WF_vars(CancelWait)
    /\ \A r \in Runs :
        /\ WF_vars(RunStep(r))
        /\ \A s \in Slots : WF_vars(WorkerStep(r, s))

FairRun == SpecRun /\ Fairness

\* The select of the wait loop takes the event case when an event stays
\* queued, and the component that runs the replacements brings every
\* replacement in the store to running.
EnvFairness ==
    \A r \in Runs, s \in Slots :
        /\ WF_vars(WaitEvent(r, s))
        /\ SF_vars(Publish(r, s, "RUNNING"))

FairEnv == SpecRun /\ Fairness /\ EnvFairness

\* A caller that holds the lock goes on to the end of its call, and the
\* mutex hands the lock to a goroutine that keeps asking for it (sync.Mutex
\* does not starve a waiter).  Nothing is assumed of when callers arrive.
CallerFairness ==
    /\ WF_vars(CancelClose)
    /\ WF_vars(\E r \in Runs : CancelAllNext(r))
    /\ WF_vars(CancelAllReturn)
    /\ WF_vars(\E svc \in SupervisedServices, ts \in SupervisedTaskLists : UpdateNew(svc, ts))
    /\ \A r \in Runs : SF_vars(Deregister(r))

FairSpec == Spec /\ Fairness /\ CallerFairness

\* ------------------------------------------------------------------ properties
Range(f) == {f[i] : i \in DOMAIN f}
IDs(ts) == [i \in DOMAIN ts |-> ts[i].ID]
Started(r) == upc[r] \notin {"none", "go"}
Exited(r) == \A s \in Slots : w[r][s].pc \in {"none", "exit"}
\* The workers of r inside updateTask.
InFlight(r) == {s \in Slots : w[r][s].pc \in {"watch", "tx", "wait"}}
\* The replacements run r has created in the store: one per committed transaction.
Committed(r) == {id \in DOMAIN store : id[1] = r}
IsPrefix(a, b) == Len(a) <= Len(b) /\ \A i \in 1 .. Len(a) : a[i] = b[i]

\* C1: two runs of one service never overlap: when the later one is
\* registered (and already when Update is about to register it), the earlier
\* one has closed doneChan, Run has returned and all its workers have exited.
C1_NoOverlap ==
    /\ \A r1, r2 \in Runs :
        (r1 < r2 /\ r2 <= created /\ service[r1].ID = service[r2].ID)
            => (doneChan[r1] /\ upc[r1] \in {"ran", "exit"} /\ Exited(r1))
    /\ \A r \in Runs :
        (cpc = "Update_New" /\ updates[cid] = r) => (doneChan[r] /\ Exited(r))

C1_Witness ==
    \E r1, r2 \in Runs :
        /\ r1 < r2 /\ r2 <= created /\ service[r1].ID = service[r2].ID
        /\ cancelCalls[r1] = 1 /\ Committed(r1) # {}
        /\ dispatched[r2] # <<>>

\* C2: once the dispatch loop has taken the stopChan case, no further task
\* is handed to a worker.
C2_StopEndsDispatch ==
    [][\A r \in Runs : sawStop[r] => dispatched'[r] = dispatched[r]]_vars

\* C3: a run cancelled while every worker that holds a task is blocked in
\* the delay or in the wait for its replacement commits no transaction after
\* the close of stopChan.
C3_NoCommitAfterCancel ==
    [][\A r \in Runs :
        (stopChan[r] /\ quietAtStop[r]) => Committed(r)' = Committed(r)]_vars

\* C4: once stopChan is closed the run closes doneChan, and the Cancel call
\* that waits for it returns.
C4_CancelCompletes ==
    \A r \in Runs :
        /\ stopChan[r] ~> doneChan[r]
        /\ (cpc \in {"Update_Wait", "CancelAll_Wait"} /\ ctarget = r)
               ~> (cpc \notin {"Update_Wait", "CancelAll_Wait"})

C4_Witness ==
    \E r \in Runs :
        /\ stopChan[r] /\ doneChan[r] /\ cpc = "idle"
        /\ Committed(r) # {}
        /\ Len(dispatched[r]) < Len(dirtyTasks[r])

\* C5 as stated: CancelAll only signals, it is never blocked on the doneChan
\* of a run that has not completed.
C5_CancelAllOnlySignals ==
    ~(cpc = "CancelAll_Wait" /\ ~doneChan[ctarget])

\* C5 as amended: every entry the range loop of CancelAll has visited is a
\* run that is cancelled and has completed with all its workers gone; so
\* when the loop is over and CancelAll returns, every registered run has.
C5_CancelAllWaits ==
    cpc = "CancelAll_Range" =>
        \A id \in ServiceIDs :
            (updates[id] # 0 /\ updates[id] \notin cpending)
                => (stopChan[updates[id]] /\ doneChan[updates[id]] /\ Exited(updates[id]))

C5_Witness ==
    /\ cpc = "CancelAll_Range" /\ cpending = {}
    /\ \A id \in ServiceIDs : updates[id] # 0 /\ Committed(updates[id]) # {}

\* C6: Cancel is invoked at most once on an Updater.
C6_CancelOnce == \A r \in Runs : cancelCalls[r] <= 1

\* C7: with a configured parallelism P > 0 at most P workers are inside
\* updateTask; with parallelism 0 (or no update policy) the run starts as
\* many workers as there are dirty tasks.
C7_ParallelismBound ==
    \A r \in Runs : Started(r) =>
        LET P == IF service[r].Update = Nil THEN 0 ELSE service[r].Update[1].Parallelism
        IN  /\ P > 0 => Cardinality(InFlight(r)) <= P
            /\ P = 0 => Cardinality({s \in Slots : w[r][s].pc # "none"}) = Len(dirtyTasks[r])

C7_Witness ==
    \E r \in Runs :
        /\ service[r].Update # Nil /\ service[r].Update[1].Parallelism = 1
        /\ Len(dirtyTasks[r]) = 2 /\ idx[r] = 2 /\ ~stopChan[r]
        /\ Cardinality(InFlight(r)) = 1

\* The rule of the data model: dirty when the service has a container spec
\* and the task's differs, or the service has none and the task's is not empty.
SpecDirty(svc, t) ==
    \/ svc.Container # Nil /\ t.Spec # svc.Container[1]
    \/ svc.Container = Nil /\ t.Spec # EmptyContainerSpec

\* C8: Run's dirtyTasks holds exactly the tasks of the snapshot that the rule
\* calls dirty.
C8_DirtyRule ==
    \A r \in Runs : Started(r) =>
        \A i \in DOMAIN tasks[r] :
            (tasks[r][i] \in Range(dirtyTasks[r])) <=> SpecDirty(service[r], tasks[r][i])

C8_Witness ==
    \E r \in Runs :
        /\ Started(r) /\ service[r].Container = Nil
        /\ Len(tasks[r]) = 2 /\ Len(dirtyTasks[r]) = 1

\* C9: the tasks handed to workers are a prefix of the dirty tasks in
\* snapshot order, all of them once an uncancelled run has left the loop, and
\* a clean task is neither handed out nor written.
C9_DispatchPrefix ==
    \A r \in Runs : Started(r) =>
        LET dirty == SelectSeq(tasks[r], LAMBDA t : SpecDirty(service[r], t))
        IN  /\ IsPrefix(dispatched[r], IDs(dirty))
            /\ (~stopChan[r] /\ upc[r] # "dispatch") => dispatched[r] = IDs(dirty)
            /\ \A i \in DOMAIN tasks[r] :
                ~SpecDirty(service[r], tasks[r][i]) =>
                    /\ tasks[r][i].ID \notin Range(dispatched[r])
                    /\ store[tasks[r][i].ID] = tasks[r][i]

\* C10: a run whose tasks are all clean closes doneChan with no worker
\* started, no queue, no watch and no transaction.
C10_NoOpFastPath ==
    \A r \in Runs :
        (upc[r] # "none" /\ \A i \in DOMAIN tasks[r] : ~SpecDirty(service[r], tasks[r][i]))
            => /\ \A s \in Slots : w[r][s] = IdleWorker
               /\ taskQueue[r] = "none"
               /\ txIssued[r] = 0 /\ Committed(r) = {}
               /\ upc[r] # "go" => (doneChan[r] /\ upc[r] \in {"ran", "exit"})

C10_Witness ==
    \E r \in Runs :
        /\ doneChan[r] /\ Len(tasks[r]) > 0
        /\ \A i \in DOMAIN tasks[r] : ~SpecDirty(service[r], tasks[r][i])
        /\ service[r].Update # Nil
        /\ service[r].Update[1].Parallelism > 0 /\ service[r].Update[1].Delay # 0

\* C11: the watch exists from before the transaction is issued until
\* updateTask returns, so every event published once the replacement is in
\* the store is queued for the wait; a queued event is never lost, and one
\* that carries a state >= running stays at the head until the worker
\* leaves the wait.
C11_WatchBeforeWrite ==
    /\ [](\A r \in Runs, s \in Slots :
            /\ w[r][s].pc \in {"tx", "wait"} => w[r][s].watching
            /\ w[r][s].updated.ID \in DOMAIN store => w[r][s].watching)
    /\ [][\A r \in Runs, s \in Slots :
            (w[r][s].pc = "wait" /\ w'[r][s].pc = "wait") =>
                \/ w'[r][s].events = w[r][s].events
                \/ \E e \in EventStates : w'[r][s].events = Append(w[r][s].events, e)
                \/ /\ w[r][s].events # <<>>
                   /\ TaskStateRank[Head(w[r][s].events)] < TaskStateRank.RUNNING
                   /\ w'[r][s].events = Tail(w[r][s].events)]_vars

C11_Witness ==
    \E r \in Runs, s \in Slots :
        /\ w[r][s].pc = "wait" /\ ~stopChan[r]
        /\ w[r][s].updated.ID \in DOMAIN store
        /\ w[r][s].events = <<"RUNNING">>

\* The transactions of run r that the store rejected.
Rejected(r) == txIssued[r] - Cardinality(Committed(r))

\* C12: a worker whose transaction is rejected goes back to its loop (to
\* the delay or to the queue); and a run with a rejected transaction closes
\* doneChan, having handed out every dirty task unless it was cancelled.
C12_RejectDoesNotAbort ==
    /\ [][\A r \in Runs, s \in Slots :
            (w[r][s].pc = "tx" /\ w'[r][s].pc # "tx" /\ store' = store)
                => w'[r][s].pc \in {"recv", "delay"}]_vars
    /\ \A r \in Runs :
        (Rejected(r) > 0)
            ~> (doneChan[r] /\ (stopChan[r] \/ dispatched[r] = IDs(dirtyTasks[r])))

C12_Witness ==
    \E r \in Runs :
        /\ doneChan[r] /\ ~stopChan[r]
        /\ Len(dirtyTasks[r]) = 2 /\ dispatched[r] = IDs(dirtyTasks[r])
        /\ Rejected(r) = 1 /\ Cardinality(Committed(r)) = 1
        /\ service[r].Update # Nil /\ service[r].Update[1].Parallelism = 1

\* C13: when a run that was not cancelled and had no transaction rejected
\* has closed doneChan, it has issued one transaction per dirty task, every
\* dirty task is in the store with DesiredState dead next to exactly one
\* replacement of the same instance; and a worker of a run that is not
\* cancelled leaves the wait only on an event with a state >= running.
C13_DoneMeansReplaced ==
    /\ [](\A r \in Runs :
            (doneChan[r] /\ ~stopChan[r] /\ Rejected(r) = 0) =>
                /\ txIssued[r] = Len(dirtyTasks[r])
                /\ Cardinality(Committed(r)) = Len(dirtyTasks[r])
                /\ \A i \in DOMAIN dirtyTasks[r] :
                    LET t == dirtyTasks[r][i] IN
                        /\ store[t.ID].DesiredState = "DEAD"
                        /\ Cardinality({id \in Committed(r) : id[2] = t.ID[2]}) = 1
                        /\ \A id \in Committed(r) :
                              id[2] = t.ID[2] => store[id].Instance = t.Instance)
    /\ [][\A r \in Runs, s \in Slots :
            (~stopChan[r] /\ w[r][s].pc = "wait" /\ w'[r][s].pc # "wait") =>
                /\ w[r][s].events # <<>>
                /\ TaskStateRank[Head(w[r][s].events)] >= TaskStateRank.RUNNING]_vars

C13_Witness ==
    \E r \in Runs :
        /\ doneChan[r] /\ ~stopChan[r] /\ Rejected(r) = 0
        /\ Len(dirtyTasks[r]) = 2 /\ Cardinality(Committed(r)) = 2

\* The registry entry of the service of run r points at r.
Registered(r) == service[r].ID \in ServiceIDs /\ updates[service[r].ID] = r

\* C14: an entry of the registry is changed only by the Update call that
\* registers a new run and by the goroutine of the very run it points at,
\* which removes it after Run has returned; and the entry of a run that has
\* returned is eventually no longer its own.
C14_DeregisterOwnEntry ==
    /\ [][\A id \in ServiceIDs :
            updates'[id] # updates[id] =>
                \/ updates'[id] = created' /\ created' = created + 1
                \/ /\ updates'[id] = 0
                   /\ upc[updates[id]] = "ran" /\ upc'[updates[id]] = "exit"]_vars
    /\ \A r \in Runs :
        (upc[r] = "ran" /\ Registered(r)) ~> ~Registered(r)

\* C14 for the executions that do not end in a panic.
C14_DeregisterUnlessPanic ==
    /\ [][\A id \in ServiceIDs :
            updates'[id] # updates[id] =>
                \/ updates'[id] = created' /\ created' = created + 1
                \/ /\ updates'[id] = 0
                   /\ upc[updates[id]] = "ran" /\ upc'[updates[id]] = "exit"]_vars
    /\ \A r \in Runs :
        (upc[r] = "ran" /\ Registered(r)) ~> (~Registered(r) \/ panicked)

C14_Witness ==
    \E r1, r2 \in Runs :
        /\ r1 < r2 /\ service[r1].ID = service[r2].ID
        /\ upc[r1] = "exit" /\ updates[service[r2].ID] = r2
        /\ ~doneChan[r2]

\* C15: Run closes doneChan without touching the lock or the registry,
\* whoever holds the lock; every Update call that cancels a registered run
\* returns, and the goroutine of the cancelled run gets the lock and ends.
C15_NoLockDeadlock ==
    /\ [][\A r \in Runs :
            doneChan'[r] # doneChan[r] => (l' = l /\ updates' = updates)]_vars
    /\ (cpc \in {"Update_Cancel", "Update_Wait"}) ~> (cpc = "idle")
    /\ \A r \in Runs :
        (cpc = "Update_Cancel" /\ ctarget = r) ~> (upc[r] = "exit")

\* C15 for the executions that do not end in a panic.
C15_NoLockDeadlockUnlessPanic ==
    /\ [][\A r \in Runs :
            doneChan'[r] # doneChan[r] => (l' = l /\ updates' = updates)]_vars
    /\ (cpc \in {"Update_Cancel", "Update_Wait"}) ~> (cpc = "idle" \/ panicked)
    /\ \A r \in Runs :
        (cpc = "Update_Cancel" /\ ctarget = r) ~> (upc[r] = "exit" \/ panicked)

\* C16: a step that closes the stopChan of a run closes that of no other
\* run and leaves the workers, the dispatch loop and the position of every
\* other run as they are; when the step belongs to an Update call, the run
\* is the one registered for the service of the call; and a closed stopChan
\* stays closed.
C16_CancelScoped ==
    [][\A r \in Runs :
        /\ stopChan[r] => stopChan'[r]
        /\ stopChan'[r] # stopChan[r] =>
            /\ cpc = "Update_Cancel" => (service[r].ID = cid /\ updates[cid] = r)
            /\ \A r2 \in Runs \ {r} :
                /\ stopChan'[r2] = stopChan[r2] /\ doneChan'[r2] = doneChan[r2]
                /\ w'[r2] = w[r2] /\ upc'[r2] = upc[r2]
                /\ idx'[r2] = idx[r2] /\ dispatched'[r2] = dispatched[r2]]_vars

C16_Witness ==
    \E r, r2 \in Runs :
        /\ cpc = "Update_Wait" /\ ctarget = r /\ stopChan[r]
        /\ service[r].ID = cid /\ service[r2].ID \in ServiceIDs \ {cid}
        /\ Registered(r2) /\ ~stopChan[r2] /\ ~doneChan[r2]
        /\ \E s \in Slots : w[r2][s].pc = "wait"

\* The replacements of the i-th original task in the store.
Successors(i) == {id \in DOMAIN store : id[1] # 0 /\ id[2] = i}

\* C17: an original task is in the store with DesiredState dead exactly
\* when a replacement of it is in the store; and a worker leaves the
\* transaction either with both writes made and enters the wait, or with
\* the store as it was and without entering the wait.
C17_AtomicReplace ==
    /\ [](\A i \in TaskNums :
            (store[OriginalID(i)].DesiredState = "DEAD") <=> (Successors(i) # {}))
    /\ [][\A r \in Runs, s \in Slots :
            (w[r][s].pc = "tx" /\ w'[r][s].pc # "tx") =>
                LET o == w[r][s].original.ID
                    u == w[r][s].updated.ID
                IN  \/ /\ w'[r][s].pc = "wait"
                       /\ u \notin DOMAIN store /\ u \in DOMAIN store'
                       /\ store'[o].DesiredState = "DEAD"
                    \/ /\ w'[r][s].pc \in {"recv", "delay"}
                       /\ store' = store]_vars

C17_Witness ==
    \E r \in Runs, i, j \in TaskNums :
        /\ Rejected(r) = 1 /\ doneChan[r] /\ ~stopChan[r]
        /\ store[OriginalID(i)].DesiredState = "DEAD" /\ Successors(i) = {<<r, i>>}
        /\ OriginalID(j) \in Range(dispatched[r])
        /\ store[OriginalID(j)].DesiredState = "RUNNING" /\ Successors(j) = {}

\* C18: a watch is held only by a worker that is inside updateTask (at its
\* transaction or in its wait), with no event left queued elsewhere; a run
\* that has closed doneChan holds none.
C18_WatchReleased ==
    \A r \in Runs :
        /\ \A s \in Slots :
            w[r][s].pc \notin {"tx", "wait"} =>
                (~w[r][s].watching /\ w[r][s].events = <<>>)
        /\ doneChan[r] => \A s \in Slots : ~w[r][s].watching

C18_Witness ==
    \E r \in Runs :
        /\ doneChan[r] /\ stopChan[r] /\ quietAtStop[r]
        /\ Rejected(r) = 1 /\ Cardinality(Committed(r)) = 1
        /\ \A s \in Slots : ~w[r][s].watching

\* C19: the replacement a worker holds, and every replacement in the
\* store, has the instance of the original; its node is the original's when
\* the mode of the service is fill, and is not the original's (none is
\* assigned) in any other mode.
C19_InstanceAndNode ==
    \A r \in Runs :
        LET ok(o, u) ==
                /\ u.Instance = o.Instance
                /\ service[r].Mode = "FILL" => u.NodeID = o.NodeID
                /\ service[r].Mode # "FILL" => (u.NodeID # o.NodeID /\ u.NodeID = <<>>)
        IN  /\ \A s \in Slots :
                w[r][s].pc \in {"watch", "tx", "wait"} =>
                    ok(w[r][s].original, w[r][s].updated)
            /\ \A id \in Committed(r) : ok(OriginalTask(id[2]), store[id])

C19_Witness ==
    \E r \in Runs :
        /\ service[r].Mode = "FILL" /\ Cardinality(Committed(r)) = 2
        /\ \A id \in Committed(r) : store[id].NodeID = <<"node", id[2]>>

\* C20: a worker that has returned while the queue is open has seen
\* stopChan closed; so a dispatch loop that has a task to hand out and no
\* worker left has its stopChan case ready, and it leaves the loop.
C20_EarlyExitOnlyOnStop ==
    /\ [](\A r \in Runs :
            /\ \A s \in Slots :
                (w[r][s].pc = "exit" /\ taskQueue[r] = "open") => stopChan[r]
            /\ (upc[r] = "dispatch" /\ idx[r] <= Len(dirtyTasks[r]) /\ Exited(r))
                   => stopChan[r])
    /\ \A r \in Runs : (upc[r] = "dispatch" /\ Exited(r)) ~> (upc[r] # "dispatch")

C20_Witness ==
    \E r \in Runs :
        /\ upc[r] = "dispatch" /\ idx[r] <= Len(dirtyTasks[r])
        /\ Exited(r) /\ stopChan[r] /\ ~sawStop[r]

====
